---- MODULE Spec2Model ----
(***************************************************************************)
(* The map directory state store of htmap (src/htmap/htio.py).             *)
(*                                                                         *)
(* A file is a record [exists, data]; data is the sequence of its bytes.   *)
(* Text files hold one character per element.  A gzip member is the        *)
(* element GZH (header), the pickled bytes, and the element GZT (trailer). *)
(* A store operation is a sequence of file-system calls: open, one write   *)
(* of what the buffered file object collected, close.  The states between  *)
(* those calls are what another process sees.                              *)
(***************************************************************************)
EXTENDS Integers, Sequences, FiniteSets, TLC

(***************************************************************************)
(* Bounds of the model.                                                    *)
(***************************************************************************)
MaxOps == 2        \* store operations called in one run of Spec
MaxK == 2          \* components passed to save_inputs
MaxAppends == 3    \* append_cluster_id calls in one run of AppendSpec
MaxWrites == 4     \* save_object calls in one run of StreamSpec
MaxLen == 3        \* characters of a num_components file drawn in LoadSpec
MaxSaves == 2      \* save_inputs calls in one run of InputsSpec

Procs == {1, 2}
Values == {"v1", "v2"}          \* picklable objects (functions, (args, kwargs) pairs)
Ids == {5, 17, 9}                \* cluster ids

(***************************************************************************)
(* str(int) and int(str).                                                  *)
(***************************************************************************)
Digits == <<"0", "1", "2", "3", "4", "5", "6", "7", "8", "9">>

Whitespace == {" ", "\n", "\t"}

RECURSIVE StrNat(_)
StrNat(n) ==
    IF n < 10 THEN <<Digits[n + 1]>>
    ELSE StrNat(n \div 10) \o <<Digits[(n % 10) + 1]>>

\* str(n) for an int n: a minus sign for negatives, then the decimal digits.
Str(n) == IF n < 0 THEN <<"-">> \o StrNat(-n) ELSE StrNat(n)

DigitValue(c) == (CHOOSE d \in 1..10 : Digits[d] = c) - 1

IsDigit(c) == \E d \in 1..10 : Digits[d] = c

RECURSIVE LStrip(_)
LStrip(s) ==
    IF s # <<>> /\ Head(s) \in Whitespace THEN LStrip(Tail(s)) ELSE s

RECURSIVE RStrip(_)
RStrip(s) ==
    IF s # <<>> /\ s[Len(s)] \in Whitespace
    THEN RStrip(SubSeq(s, 1, Len(s) - 1)) ELSE s

\* str.strip()
Strip(s) == RStrip(LStrip(s))

RECURSIVE NatValue(_)
NatValue(s) ==
    IF s = <<>> THEN 0
    ELSE 10 * NatValue(SubSeq(s, 1, Len(s) - 1)) + DigitValue(s[Len(s)])

\* The outcome of a call that returns an int or a list of ints: err is the
\* name of the exception raised ("" when the call returns), val the list.
Returned(v) == [err |-> "", val |-> v]

Raised(e) == [err |-> e, val |-> <<>>]

\* A store that took an unreadable number for 0.
ParseIntOrZero(s) ==
    LET t == Strip(s)
        signed == t # <<>> /\ Head(t) \in {"-", "+"}
        body == IF signed THEN Tail(t) ELSE t
    IN  IF body = <<>> \/ \E i \in 1..Len(body) : ~IsDigit(body[i])
        THEN Returned(<<0>>)
        ELSE Returned(<<IF signed /\ Head(t) = "-"
                        THEN -NatValue(body) ELSE NatValue(body)>>)

\* int(s): surrounding whitespace is dropped, one sign is allowed, and at
\* least one digit must follow; anything else raises ValueError.
ParseInt(s) ==
    LET t == Strip(s)
        signed == t # <<>> /\ Head(t) \in {"-", "+"}
        body == IF signed THEN Tail(t) ELSE t
    IN  IF body = <<>> \/ \E i \in 1..Len(body) : ~IsDigit(body[i])
        THEN Raised("ValueError")
        ELSE Returned(<<IF signed /\ Head(t) = "-"
                        THEN -NatValue(body) ELSE NatValue(body)>>)

\* Index of the first line terminator of s, 0 when there is none.
FirstNewline(s) ==
    IF \E i \in 1..Len(s) : s[i] = "\n"
    THEN CHOOSE i \in 1..Len(s) : s[i] = "\n" /\ \A j \in 1..(i - 1) : s[j] # "\n"
    ELSE 0

\* str.splitlines(): the lines without their terminators; a terminator at the
\* end of the text opens no further line.
RECURSIVE SplitLines(_)
SplitLines(s) ==
    IF s = <<>> THEN <<>>
    ELSE LET i == FirstNewline(s)
         IN  IF i = 0 THEN <<s>>
             ELSE <<SubSeq(s, 1, i - 1)>> \o SplitLines(SubSeq(s, i + 1, Len(s)))

(***************************************************************************)
(* The map directory layout (htmap.names): paths relative to the map       *)
(* directory, one element per path component or file-name part.            *)
(***************************************************************************)
FUNC == "function"
INPUTS_DIR == "inputs"
INPUT_EXT == "in"
NUM_COMPONENTS == "num_components"
CLUSTER_IDS == "cluster_ids"
SUBMIT == "submit"
ITEMDATA == "itemdata"

FuncPath == <<FUNC>>

\* base_path / f"{component}.{names.INPUT_EXT}"
InputPath(component) == <<INPUTS_DIR>> \o Str(component) \o <<".", INPUT_EXT>>

_num_components_path == <<NUM_COMPONENTS>>

_cluster_ids_path == <<CLUSTER_IDS>>

\* A store whose submit path helper resolved to the log's name.
_submit_path_of_log == <<CLUSTER_IDS>>

_submit_path == <<SUBMIT>>

\* A store whose itemdata path helper resolved to the component count's name.
_itemdata_path_of_count == <<NUM_COMPONENTS>>

_itemdata_path == <<ITEMDATA>>

(***************************************************************************)
(* Files and the file-system calls the store makes.                        *)
(***************************************************************************)
\* The component files the model follows: one more than save_inputs is given
\* pairs for.
InputPaths == {InputPath(i) : i \in 0..MaxK}

\* The path save_object and load_objects are used on directly.
ObjectPath == <<"objects">>

Paths ==
    {FuncPath, _num_components_path, _cluster_ids_path, _submit_path,
     _itemdata_path, ObjectPath} \cup InputPaths

NoFile == [exists |-> FALSE, data |-> <<>>]

\* A store that opened the log with mode "w": every open truncates.
OpenTruncatesAlways(mode) == TRUE

\* open(path, mode): "w" and "wb" create the file or truncate it to nothing,
\* "a" creates it when it is missing and keeps what it holds.
OpenTruncates(mode) == mode # "a"

OpenFile(file, mode) ==
    IF file.exists /\ ~OpenTruncates(mode)
    THEN file
    ELSE [exists |-> TRUE, data |-> <<>>]

\* A store that wrote the log through a descriptor opened without O_APPEND:
\* the bytes go to the descriptor's own offset, not to the end of the file.
WriteFileAtOffset(file, mode, bytes) ==
    [exists |-> TRUE,
     data |-> bytes \o SubSeq(file.data, Len(bytes) + 1, Len(file.data))]

\* write(2) of bytes on a descriptor whose offset is 0: in append mode the
\* bytes go to the end of the file, otherwise they replace the bytes from the
\* offset on.
WriteFile(file, mode, bytes) ==
    [exists |-> TRUE,
     data |-> IF mode = "a" THEN file.data \o bytes
              ELSE bytes \o SubSeq(file.data, Len(bytes) + 1, Len(file.data))]

(***************************************************************************)
(* The object codec: cloudpickle inside a gzip member.                     *)
(***************************************************************************)
GZH == "GZH"
GZT == "GZT"
STOP == "STOP"

\* A store whose pickles lacked the STOP opcode.
PickleUnterminated(obj) == <<obj>>

\* cloudpickle.dump(obj, file): the pickled object, ended by the STOP opcode.
Pickle(obj) == <<obj, STOP>>

\* What gzip.open(path, "wb") puts around the bytes written to it: the header
\* on opening, the trailer on closing.
GzipMember(bytes) == <<GZH>> \o bytes \o <<GZT>>

\* gzip.open(path, "rb").read(): the payload of the members in turn, and how
\* reading ends: "eof" after the last complete member, EOFError inside a
\* member that has no trailer, BadGzipFile where a member does not start with
\* the header.
RECURSIVE Gunzip(_, _)
Gunzip(data, inMember) ==
    IF data = <<>>
    THEN [bytes |-> <<>>, end |-> IF inMember THEN "EOFError" ELSE "eof"]
    ELSE IF ~inMember
    THEN IF Head(data) = GZH THEN Gunzip(Tail(data), TRUE)
         ELSE [bytes |-> <<>>, end |-> "BadGzipFile"]
    ELSE IF Head(data) = GZT THEN Gunzip(Tail(data), FALSE)
    ELSE IF Head(data) = GZH THEN [bytes |-> <<>>, end |-> "BadGzipFile"]
    ELSE LET r == Gunzip(Tail(data), TRUE)
         IN  [bytes |-> <<Head(data)>> \o r.bytes, end |-> r.end]

\* Repeated cloudpickle.load on the payload: the objects loaded, and the
\* exception that ends the loading.  At the clean end of the payload
\* pickle.load raises EOFError (ran out of input); where the gzip stream
\* breaks, its exception; on bytes that are no pickle, UnpicklingError.
RECURSIVE Unpickle(_, _)
Unpickle(bytes, end) ==
    IF bytes = <<>>
    THEN [objs |-> <<>>, end |-> IF end = "eof" THEN "EOFError" ELSE end]
    ELSE IF Head(bytes) \notin Values
    THEN [objs |-> <<>>, end |-> "UnpicklingError"]
    ELSE IF Len(bytes) = 1
    THEN [objs |-> <<>>, end |-> IF end = "eof" THEN "EOFError" ELSE end]
    ELSE IF bytes[2] # STOP
    THEN [objs |-> <<>>, end |-> "UnpicklingError"]
    ELSE LET r == Unpickle(Tail(Tail(bytes)), end)
         IN  [objs |-> <<Head(bytes)>> \o r.objs, end |-> r.end]

\* The frames of the file at path, as load_object and load_objects read them.
Frames(file) ==
    LET z == Gunzip(file.data, FALSE) IN Unpickle(z.bytes, z.end)

\* load_object(path): the first object of the file.
load_object(file) ==
    IF ~file.exists THEN Raised("FileNotFoundError")
    ELSE LET f == Frames(file)
         IN  IF f.objs # <<>> THEN Returned(<<f.objs[1]>>) ELSE Raised(f.end)

(***************************************************************************)
(* The scalar record and the append log.                                   *)
(***************************************************************************)
\* load_num_components(map_dir): int(path.read_text())
load_num_components(file) ==
    IF ~file.exists THEN Raised("FileNotFoundError") ELSE ParseInt(file.data)

\* A store that forgot the line terminator.
ClusterIdLineUnterminated(cluster_id) == Str(cluster_id)

\* The line append_cluster_id writes.
ClusterIdLine(cluster_id) == Str(cluster_id) \o <<"\n">>

RECURSIVE ParseLines(_)
ParseLines(lines) ==
    IF lines = <<>> THEN Returned(<<>>)
    ELSE LET one == ParseInt(Strip(Head(lines)))
             more == ParseLines(Tail(lines))
         IN  IF one.err # "" THEN one
             ELSE IF more.err # "" THEN more
             ELSE Returned(one.val \o more.val)

\* load_cluster_ids(map_dir)
load_cluster_ids(file) ==
    IF ~file.exists THEN Raised("FileNotFoundError")
    ELSE ParseLines(SplitLines(file.data))

(***************************************************************************)
(* The structured documents: json.dump and json.load.                      *)
(*                                                                         *)
(* A JSON value is a record [t, s, items]: a string ("str", its characters *)
(* in s), an object ("obj", items = key, value, key, value, ... in         *)
(* insertion order) or an array ("arr", items = its elements).             *)
(***************************************************************************)
JStr(chars) == [t |-> "str", s |-> chars, items |-> <<>>]

JObj(items) == [t |-> "obj", s |-> <<>>, items |-> items]

JArr(items) == [t |-> "arr", s |-> <<>>, items |-> items]

JNull == [t |-> "null", s |-> <<>>, items |-> <<>>]

\* A store that wrote strings between quotes as they are.
JsonEscapeNothing(chars) == chars

\* json.encoder.py_encode_basestring_ascii: the characters of a string as
\* they stand between the quotes.
RECURSIVE JsonEscape(_)
JsonEscape(chars) ==
    IF chars = <<>> THEN <<>>
    ELSE LET c == Head(chars)
             e == IF c = "\"" THEN <<"\\", "\"">>
                  ELSE IF c = "\\" THEN <<"\\", "\\">>
                  ELSE IF c = "\n" THEN <<"\\", "n">>
                  ELSE IF c = "\t" THEN <<"\\", "t">>
                  ELSE <<c>>
         IN  e \o JsonEscape(Tail(chars))

RECURSIVE Spaces(_)
Spaces(n) == IF n <= 0 THEN <<>> ELSE <<" ">> \o Spaces(n - 1)

\* The newline and indentation json puts before an item at nesting level
\* `level`; nothing when indent is None (given as -1).
NewlineIndent(indent, level) ==
    IF indent < 0 THEN <<>> ELSE <<"\n">> \o Spaces(indent * level)

\* json.dump(o, f, indent=indent, separators=(item_sep, key_sep)): the text
\* written, as JSONEncoder.iterencode yields it.
RECURSIVE JsonDump(_, _, _, _, _)
RECURSIVE JsonDumpItems(_, _, _, _, _, _)
JsonDump(o, indent, item_sep, key_sep, level) ==
    IF o.t = "str" THEN <<"\"">> \o JsonEscape(o.s) \o <<"\"">>
    ELSE LET open == IF o.t = "obj" THEN "{" ELSE "["
             close == IF o.t = "obj" THEN "}" ELSE "]"
         IN  IF o.items = <<>> THEN <<open, close>>
             ELSE <<open>> \o NewlineIndent(indent, level + 1)
                  \o JsonDumpItems(o.t, o.items, indent, item_sep, key_sep, level + 1)
                  \o NewlineIndent(indent, level) \o <<close>>

JsonDumpItems(t, items, indent, item_sep, key_sep, level) ==
    LET n == IF t = "obj" THEN 2 ELSE 1
        first == IF t = "obj"
                 THEN JsonDump(items[1], indent, item_sep, key_sep, level)
                      \o key_sep
                      \o JsonDump(items[2], indent, item_sep, key_sep, level)
                 ELSE JsonDump(items[1], indent, item_sep, key_sep, level)
        more == SubSeq(items, n + 1, Len(items))
    IN  IF more = <<>> THEN first
        ELSE first \o item_sep \o NewlineIndent(indent, level)
             \o JsonDumpItems(t, more, indent, item_sep, key_sep, level)

\* json.dump(dict(submit), f, indent=4, separators=(", ", ": "))
SubmitText(submit) == JsonDump(submit, 4, <<",", " ">>, <<":", " ">>, 0)

\* json.dump(itemdata, f, indent=None, separators=(",", ":"))
ItemdataText(itemdata) == JsonDump(itemdata, -1, <<",">>, <<":">>, 0)

\* The outcome of a call that returns a document.
JReturned(v) == [err |-> "", val |-> v]

JRaised(e) == [err |-> e, val |-> JNull]

\* One step of the JSON scanner: ok, the value read, and the text after it.
Parsed(v, rest) == [ok |-> TRUE, val |-> v, rest |-> rest]

NotParsed == [ok |-> FALSE, val |-> JNull, rest |-> <<>>]

\* json.decoder.py_scanstring from position i, the opening quote read and
\* acc decoded so far: up to the closing quote, a backslash taking the next
\* character with it; a control character or the end of the text before the
\* closing quote is an error.
RECURSIVE ScanString(_, _, _)
ScanString(s, i, acc) ==
    IF i > Len(s) \/ s[i] \in {"\n", "\t"} THEN NotParsed
    ELSE IF s[i] = "\"" THEN Parsed(JStr(acc), SubSeq(s, i + 1, Len(s)))
    ELSE IF s[i] # "\\" THEN ScanString(s, i + 1, Append(acc, s[i]))
    ELSE IF i = Len(s) THEN NotParsed
    ELSE IF s[i + 1] \in {"\"", "\\", "/"}
    THEN ScanString(s, i + 2, Append(acc, s[i + 1]))
    ELSE IF s[i + 1] = "n" THEN ScanString(s, i + 2, Append(acc, "\n"))
    ELSE IF s[i + 1] = "t" THEN ScanString(s, i + 2, Append(acc, "\t"))
    ELSE NotParsed

ParseString(s) ==
    IF s = <<>> \/ Head(s) # "\"" THEN NotParsed ELSE ScanString(s, 2, <<>>)

\* json.JSONDecoder: a string, an object or an array, whitespace allowed
\* around every token.
RECURSIVE ParseValue(_)
RECURSIVE ParseMembers(_, _)
RECURSIVE ParseElements(_, _)
ParseValue(text) ==
    LET s == LStrip(text)
    IN  IF s = <<>> THEN NotParsed
        ELSE IF Head(s) = "\"" THEN ParseString(s)
        ELSE IF Head(s) = "{"
        THEN LET b == LStrip(Tail(s))
             IN  IF b # <<>> /\ Head(b) = "}" THEN Parsed(JObj(<<>>), Tail(b))
                 ELSE ParseMembers(b, <<>>)
        ELSE IF Head(s) = "["
        THEN LET b == LStrip(Tail(s))
             IN  IF b # <<>> /\ Head(b) = "]" THEN Parsed(JArr(<<>>), Tail(b))
                 ELSE ParseElements(b, <<>>)
        ELSE NotParsed

ParseMembers(text, acc) ==
    LET k == ParseString(text)
        c == LStrip(k.rest)
    IN  IF ~k.ok \/ c = <<>> \/ Head(c) # ":" THEN NotParsed
        ELSE LET v == ParseValue(Tail(c))
                 e == LStrip(v.rest)
                 got == acc \o <<k.val, v.val>>
             IN  IF ~v.ok \/ e = <<>> THEN NotParsed
                 ELSE IF Head(e) = "}" THEN Parsed(JObj(got), Tail(e))
                 ELSE IF Head(e) = "," THEN ParseMembers(LStrip(Tail(e)), got)
                 ELSE NotParsed

ParseElements(text, acc) ==
    LET v == ParseValue(text)
        e == LStrip(v.rest)
        got == acc \o <<v.val>>
    IN  IF ~v.ok \/ e = <<>> THEN NotParsed
        ELSE IF Head(e) = "]" THEN Parsed(JArr(got), Tail(e))
        ELSE IF Head(e) = "," THEN ParseElements(Tail(e), got)
        ELSE NotParsed

\* A store that took an unreadable document for an empty one.
JsonLoadOrEmpty(text) ==
    LET v == ParseValue(text)
    IN  IF v.ok /\ LStrip(v.rest) = <<>> THEN JReturned(v.val)
        ELSE JReturned(JObj(<<>>))

\* json.load(f): the whole text must be one value.
JsonLoad(text) ==
    LET v == ParseValue(text)
    IN  IF v.ok /\ LStrip(v.rest) = <<>> THEN JReturned(v.val)
        ELSE JRaised("JSONDecodeError")

\* load_submit(map_dir)
load_submit(file) ==
    IF ~file.exists THEN JRaised("FileNotFoundError") ELSE JsonLoad(file.data)

\* load_itemdata(map_dir)
load_itemdata(file) ==
    IF ~file.exists THEN JRaised("FileNotFoundError") ELSE JsonLoad(file.data)

(***************************************************************************)
(* The state: the files of one map directory and the processes using it.   *)
(***************************************************************************)
VARIABLES
    fs,         \* path -> file
    local,      \* process -> the store operation it is in, and where
    left,       \* store operations that may still be called in this run
    called,     \* names of the store operations called so far
    appended,   \* process -> cluster ids of its append_cluster_id calls that returned
    committed,  \* path -> the file as the last save of it that returned left it
    numFirst,   \* n of the first save_num_components that returned, -1 before
    numLast,    \* n of the last save_num_components that returned, -1 before
                \* and from the moment a later one opens the file
    lastInputs, \* the pairs the last save_inputs was called with
    saved,      \* objects of the save_object calls that returned, in order
    docs,       \* save_submit, save_itemdata -> the document the last call of
                \* it that returned was given; JNull before, and from the
                \* moment a later call opens the file
    gen,        \* the generator load_objects returned, and what it gave so far
    result      \* the last load call recorded: its name, the file read, the outcome

history ==
    <<called, appended, committed, numFirst, numLast, lastInputs, saved, docs>>

readers == <<gen, result>>

vars == <<fs, local, left, history, readers>>

Idle ==
    [op |-> "idle", pc |-> "idle", path |-> <<>>, mode |-> "", bytes |-> <<>>,
     obj |-> "", doc |-> JNull, rest |-> <<>>, component |-> 0, arg |-> 0]

\* A process inside operation op, about to open path in the given mode and
\* to write bytes to it.
Entered(op, path, mode, bytes, rest, component, arg) ==
    [op |-> op, pc |-> "open", path |-> path, mode |-> mode, bytes |-> bytes,
     obj |-> "", doc |-> JNull, rest |-> rest, component |-> component,
     arg |-> arg]

\* Arguments the operations are called with.
RECURSIVE SeqsUpTo(_, _)
SeqsUpTo(S, n) ==
    IF n = 0 THEN {<<>>}
    ELSE LET shorter == SeqsUpTo(S, n - 1)
         IN  shorter \cup {Append(q, x) : q \in shorter, x \in S}

\* dict(submit): no pair, two pairs in either order, and a value with the
\* characters json escapes.
Submits ==
    {JObj(<<>>),
     JObj(<<JStr(<<"a">>), JStr(<<"x">>), JStr(<<"b">>), JStr(<<"y">>)>>),
     JObj(<<JStr(<<"b">>), JStr(<<"y">>), JStr(<<"a">>), JStr(<<"x">>)>>),
     JObj(<<JStr(<<"a">>), JStr(<<"\"", "x", "\\">>)>>)}

\* itemdata: no component, components with and without pairs, and the same
\* components in another order.
Itemdatas ==
    {JArr(<<>>),
     JArr(<<JObj(<<JStr(<<"a">>), JStr(<<"x">>)>>), JObj(<<>>)>>),
     JArr(<<JObj(<<>>), JObj(<<JStr(<<"a">>), JStr(<<"x">>)>>)>>)}

\* The operations that save a structured document.
DocumentOps == {"save_submit", "save_itemdata"}

\* No generator yet: state is "none"; "running" once load_objects was called,
\* "finished" once a next() raised; yielded are the objects it gave, err the
\* exception that ended it.
NoGenerator == [state |-> "none", yielded |-> <<>>, err |-> ""]

NoResult == [op |-> "none", file |-> NoFile, out |-> Raised("")]

\* No process is in the store and none has been.
Quiet ==
    /\ local = [p \in Procs |-> Idle]
    /\ called = {}
    /\ appended = [p \in Procs |-> <<>>]
    /\ committed = [path \in Paths |-> NoFile]
    /\ numFirst = -1
    /\ numLast = -1
    /\ lastInputs = <<>>
    /\ saved = <<>>
    /\ docs = [op \in DocumentOps |-> JNull]
    /\ gen = NoGenerator
    /\ result = NoResult

\* The map directory right after its construction: the directory and its
\* inputs directory exist and hold no file.
Fresh == Quiet /\ fs = [path \in Paths |-> NoFile]

Init == Fresh /\ left = MaxOps

\* A process can call an operation when it is in none.
CanCall(p) == local[p].op = "idle" /\ left > 0

\* The call of operation op is counted; it touches no file yet.
Called(op) ==
    /\ left' = left - 1
    /\ called' = called \cup {op}
    /\ UNCHANGED <<fs, appended, committed, numFirst, numLast, saved, docs,
                   readers>>

\* A store that opened object files with mode "ab".
SaveObjectEnteredAppending(op, obj, path, rest, component) ==
    [Entered(op, path, "a", GzipMember(Pickle(obj)), rest, component, 0)
        EXCEPT !.obj = obj]

\* save_object(obj, path), lines 33-34: what the with block writes.
SaveObjectEntered(op, obj, path, rest, component) ==
    [Entered(op, path, "wb", GzipMember(Pickle(obj)), rest, component, 0)
        EXCEPT !.obj = obj]

save_object(p, obj) ==
    /\ CanCall(p)
    /\ local' = [local EXCEPT ![p] =
                     SaveObjectEntered("save_object", obj, ObjectPath, <<>>, 0)]
    /\ Called("save_object")
    /\ UNCHANGED lastInputs

save_func(p, func) ==
    /\ CanCall(p)
    /\ local' = [local EXCEPT ![p] =
                     SaveObjectEntered("save_func", func, FuncPath, <<>>, 0)]
    /\ Called("save_func")
    /\ UNCHANGED lastInputs

\* save_inputs: enumerate starts at component 0; with no pairs the loop body
\* never runs and the call returns.
save_inputs(p, args_and_kwargs) ==
    /\ CanCall(p)
    /\ local' = [local EXCEPT ![p] =
                     IF args_and_kwargs = <<>> THEN Idle
                     ELSE SaveObjectEntered("save_inputs", Head(args_and_kwargs),
                                            InputPath(0), Tail(args_and_kwargs), 0)]
    /\ Called("save_inputs")
    /\ lastInputs' = args_and_kwargs

save_num_components(p, num_components) ==
    /\ CanCall(p)
    /\ local' = [local EXCEPT ![p] =
                     Entered("save_num_components", _num_components_path, "w",
                             Str(num_components), <<>>, 0, num_components)]
    /\ Called("save_num_components")
    /\ UNCHANGED lastInputs

append_cluster_id(p, cluster_id) ==
    /\ CanCall(p)
    /\ local' = [local EXCEPT ![p] =
                     Entered("append_cluster_id", _cluster_ids_path, "a",
                             ClusterIdLine(cluster_id), <<>>, 0, cluster_id)]
    /\ Called("append_cluster_id")
    /\ UNCHANGED lastInputs

save_submit(p, submit) ==
    /\ CanCall(p)
    /\ local' = [local EXCEPT ![p] =
                     [Entered("save_submit", _submit_path, "w",
                              SubmitText(submit), <<>>, 0, 0)
                         EXCEPT !.doc = submit]]
    /\ Called("save_submit")
    /\ UNCHANGED lastInputs

save_itemdata(p, itemdata) ==
    /\ CanCall(p)
    /\ local' = [local EXCEPT ![p] =
                     [Entered("save_itemdata", _itemdata_path, "w",
                              ItemdataText(itemdata), <<>>, 0, 0)
                         EXCEPT !.doc = itemdata]]
    /\ Called("save_itemdata")
    /\ UNCHANGED lastInputs

\* gzip.open(path, mode="wb"), path.open(mode=...), path.write_text: the open
\* call.
Open(p) ==
    LET l == local[p]
    IN  /\ l.pc = "open"
        /\ fs' = [fs EXCEPT ![l.path] = OpenFile(fs[l.path], l.mode)]
        /\ local' = [local EXCEPT ![p].pc = "opened"]
        /\ numLast' = IF l.op = "save_num_components" THEN -1 ELSE numLast
        /\ docs' = IF l.op \in DocumentOps THEN [docs EXCEPT ![l.op] = JNull]
                   ELSE docs
        /\ UNCHANGED <<left, called, appended, committed, numFirst, lastInputs,
                       saved, readers>>

\* A store whose save_inputs returned after the first pair.
AfterCloseReturns(l) == Idle

\* A store whose save_inputs wrote its first pair to every component.
AfterCloseRepeatsPair(l) ==
    IF l.op = "save_inputs" /\ l.rest # <<>>
    THEN [Entered("save_inputs", InputPath(l.component + 1), "wb",
                  GzipMember(Pickle(l.obj)), Tail(l.rest), l.component + 1, 0)
             EXCEPT !.obj = l.obj]
    ELSE Idle

\* A store whose save_inputs numbered the components by twos.
AfterCloseSkipsIndex(l) ==
    IF l.op = "save_inputs" /\ l.rest # <<>>
    THEN [Entered("save_inputs", InputPath(l.component + 2), "wb",
                  GzipMember(Pickle(Head(l.rest))), Tail(l.rest),
                  l.component + 2, 0)
             EXCEPT !.obj = Head(l.rest)]
    ELSE Idle

\* What the process does after closing the file: save_inputs goes on with the
\* next pair, every other operation returns.
AfterClose(l) ==
    IF l.op = "save_inputs" /\ l.rest # <<>>
    THEN SaveObjectEntered("save_inputs", Head(l.rest),
                           InputPath(l.component + 1), Tail(l.rest),
                           l.component + 1)
    ELSE Idle

\* The end of the with block: the buffered bytes are written and the file is
\* closed.
Close(p) ==
    LET l == local[p]
        file == WriteFile(fs[l.path], l.mode, l.bytes)
    IN  /\ l.pc = "opened"
        /\ fs' = [fs EXCEPT ![l.path] = file]
        /\ local' = [local EXCEPT ![p] = AfterClose(l)]
        /\ appended' = IF l.op = "append_cluster_id"
                       THEN [appended EXCEPT ![p] = Append(@, l.arg)]
                       ELSE appended
        /\ committed' = IF l.mode = "a" THEN committed
                        ELSE [committed EXCEPT ![l.path] = file]
        /\ numLast' = IF l.op = "save_num_components" THEN l.arg ELSE numLast
        /\ numFirst' = IF l.op = "save_num_components" /\ numFirst = -1
                       THEN l.arg ELSE numFirst
        /\ saved' = IF l.op = "save_object" THEN Append(saved, l.obj) ELSE saved
        /\ docs' = IF l.op \in DocumentOps THEN [docs EXCEPT ![l.op] = l.doc]
                   ELSE docs
        /\ UNCHANGED <<left, called, lastInputs, readers>>

\* The bytes that reach the file when the operation fails after opening it:
\* nothing when the write itself fails; an empty gzip member when
\* cloudpickle.dump raises (the with block still closes the member); the text
\* up to a value that json cannot encode.
FailBytes(l) ==
    IF l.mode = "wb" THEN {<<>>, GzipMember(<<>>)}
    ELSE IF l.op \in {"save_submit", "save_itemdata"}
    THEN {<<>>} \cup {SubSeq(l.bytes, 1, i) : i \in {j \in 1..(Len(l.bytes) - 1) :
                          l.bytes[j] = ":" \/ (j > 1 /\ l.bytes[j - 1] = ":"
                                               /\ l.bytes[j] = " ")}}
    ELSE {<<>>}

\* The operation raises inside the with block: the exception leaves the
\* store, so save_inputs writes no further component.
Fail(p) ==
    LET l == local[p]
    IN  /\ l.pc = "opened"
        /\ \E bytes \in FailBytes(l) :
               fs' = [fs EXCEPT ![l.path] = WriteFile(fs[l.path], l.mode, bytes)]
        /\ local' = [local EXCEPT ![p] = Idle]
        /\ UNCHANGED <<left, history, readers>>

(***************************************************************************)
(* Spec: one process calling the store operations in any order, each of    *)
(* them succeeding or failing.                                             *)
(***************************************************************************)
Caller == CHOOSE p \in Procs : \A q \in Procs : p <= q

Next ==
    \/ \E obj \in Values : save_object(Caller, obj)
    \/ \E func \in Values : save_func(Caller, func)
    \/ \E pairs \in SeqsUpTo(Values, MaxK) : save_inputs(Caller, pairs)
    \/ \E n \in 0..MaxK : save_num_components(Caller, n)
    \/ \E id \in Ids : append_cluster_id(Caller, id)
    \/ \E submit \in Submits : save_submit(Caller, submit)
    \/ \E itemdata \in Itemdatas : save_itemdata(Caller, itemdata)
    \/ Open(Caller)
    \/ Close(Caller)
    \/ Fail(Caller)

Spec == Init /\ [][Next]_vars

(***************************************************************************)
(* AppendSpec: two independent processes appending to the batch identifier *)
(* log of the same map directory, their file-system calls interleaved.     *)
(***************************************************************************)
AppendInit == Fresh /\ left = MaxAppends

AppendNext ==
    \E p \in Procs :
        \/ \E id \in Ids : append_cluster_id(p, id)
        \/ Open(p)
        \/ Close(p)
        \/ Fail(p)

AppendSpec == AppendInit /\ [][AppendNext]_vars

(***************************************************************************)
(* StreamSpec: objects are written to one path by save_object, one call    *)
(* after the other, and then read back through load_objects.               *)
(***************************************************************************)
StreamInit == Fresh /\ left = MaxWrites

StreamWrite ==
    /\ gen.state = "none"
    /\ \E obj \in Values : save_object(Caller, obj)

\* load_objects(path): the call returns a generator; nothing runs yet.
load_objects ==
    /\ gen.state = "none"
    /\ local[Caller].op = "idle"
    /\ gen' = [state |-> "running", yielded |-> <<>>, err |-> ""]
    /\ UNCHANGED <<fs, local, left, history, result>>

\* next() on the generator: the first one opens the file; each one runs
\* cloudpickle.load once and yields the object, or lets the exception of
\* gzip.open or cloudpickle.load through, which ends the generator.
GeneratorNext ==
    LET file == fs[ObjectPath]
        frames == Frames(file)
        n == Len(gen.yielded)
    IN  /\ gen.state = "running"
        /\ gen' = IF ~file.exists
                  THEN [gen EXCEPT !.state = "finished", !.err = "FileNotFoundError"]
                  ELSE IF n < Len(frames.objs)
                  THEN [gen EXCEPT !.yielded = Append(@, frames.objs[n + 1])]
                  ELSE [gen EXCEPT !.state = "finished", !.err = frames.end]
        /\ UNCHANGED <<fs, local, left, history, result>>

StreamNext ==
    \/ StreamWrite
    \/ Open(Caller)
    \/ Close(Caller)
    \/ load_objects
    \/ GeneratorNext

StreamSpec == StreamInit /\ [][StreamNext]_vars

(***************************************************************************)
(* CreateSpec: the creation workflow on a fresh map directory.  It saves   *)
(* the function, the inputs, the component count, the submit description   *)
(* and the itemdata, each once and each to its end; the count it saves is  *)
(* the number of pairs it gave save_inputs.                                *)
(***************************************************************************)
CreationOps ==
    {"save_func", "save_inputs", "save_num_components", "save_submit",
     "save_itemdata"}

CreateInit == Fresh /\ left = Cardinality(CreationOps)

CreateFunc ==
    /\ "save_func" \notin called
    /\ \E func \in Values : save_func(Caller, func)

CreateInputs ==
    /\ "save_inputs" \notin called
    /\ \E pairs \in SeqsUpTo(Values, MaxK) : save_inputs(Caller, pairs)

CreateCount ==
    /\ "save_inputs" \in called
    /\ "save_num_components" \notin called
    /\ save_num_components(Caller, Len(lastInputs))

CreateSubmit ==
    /\ "save_submit" \notin called
    /\ \E submit \in Submits : save_submit(Caller, submit)

CreateItemdata ==
    /\ "save_itemdata" \notin called
    /\ \E itemdata \in Itemdatas : save_itemdata(Caller, itemdata)

CreateNext ==
    \/ CreateFunc
    \/ CreateInputs
    \/ CreateCount
    \/ CreateSubmit
    \/ CreateItemdata
    \/ Open(Caller)
    \/ Close(Caller)

CreateSpec == CreateInit /\ [][CreateNext]_vars

(***************************************************************************)
(* LoadSpec: load_num_components on every num_components file of up to     *)
(* MaxLen characters, on a missing one, and on the files that one           *)
(* save_num_components leaves.                                             *)
(***************************************************************************)
NumAlphabet == {"0", "1", "7", "-", "+", " ", "\n", "x"}

NumFiles ==
    {NoFile} \cup {[exists |-> TRUE, data |-> d] : d \in SeqsUpTo(NumAlphabet, MaxLen)}

\* Component counts save_num_components is called with in LoadSpec.
Counts == (0..MaxK) \cup {10, 128}

LoadInit ==
    /\ Quiet
    /\ left = 1
    /\ \E file \in NumFiles :
           fs = [path \in Paths |->
                     IF path = _num_components_path THEN file ELSE NoFile]

\* A call of load_num_components(map_dir), lines 77-78.
LoadNumComponents ==
    /\ result' = [op |-> "load_num_components",
                  file |-> fs[_num_components_path],
                  out |-> load_num_components(fs[_num_components_path])]
    /\ UNCHANGED <<fs, local, left, history, gen>>

LoadNext ==
    \/ \E n \in Counts : save_num_components(Caller, n)
    \/ Open(Caller)
    \/ Close(Caller)
    \/ Fail(Caller)
    \/ LoadNumComponents

LoadSpec == LoadInit /\ [][LoadNext]_vars

(***************************************************************************)
(* LogSpec: load_cluster_ids on every cluster_ids file of up to MaxLen     *)
(* characters, and on the files that one append_cluster_id makes of them.  *)
(***************************************************************************)
LogAlphabet == {"5", "1", "-", " ", "\n", "x"}

LogFiles ==
    {NoFile} \cup {[exists |-> TRUE, data |-> d] : d \in SeqsUpTo(LogAlphabet, MaxLen)}

LogInit ==
    /\ Quiet
    /\ left = 1
    /\ \E file \in LogFiles :
           fs = [path \in Paths |->
                     IF path = _cluster_ids_path THEN file ELSE NoFile]

\* A call of load_cluster_ids(map_dir), line 93.
LoadClusterIds ==
    /\ result' = [op |-> "load_cluster_ids",
                  file |-> fs[_cluster_ids_path],
                  out |-> load_cluster_ids(fs[_cluster_ids_path])]
    /\ UNCHANGED <<fs, local, left, history, gen>>

LogNext ==
    \/ \E id \in Ids : append_cluster_id(Caller, id)
    \/ Open(Caller)
    \/ Close(Caller)
    \/ Fail(Caller)
    \/ LoadClusterIds

LogSpec == LogInit /\ [][LogNext]_vars

(***************************************************************************)
(* DocSpec: the submit description and the itemdata are saved, each once   *)
(* and to its end; a saved document file may lose its last byte; and the   *)
(* documents are loaded at any moment.                                     *)
(***************************************************************************)
DocumentPath(op) == IF op = "save_submit" THEN _submit_path ELSE _itemdata_path

DocInit == Fresh /\ left = Cardinality(DocumentOps)

DocSubmit ==
    /\ "save_submit" \notin called
    /\ \E submit \in Submits : save_submit(Caller, submit)

DocItemdata ==
    /\ "save_itemdata" \notin called
    /\ \E itemdata \in Itemdatas : save_itemdata(Caller, itemdata)

\* The text without its last byte.
Truncated(data) == SubSeq(data, 1, Len(data) - 1)

\* The file of a saved document is cut short by one byte, from outside the
\* store.
TruncateDocument ==
    \E op \in DocumentOps :
        LET path == DocumentPath(op)
        IN  /\ docs[op] # JNull
            /\ fs[path] = committed[path]
            /\ fs' = [fs EXCEPT ![path].data = Truncated(@)]
            /\ UNCHANGED <<local, left, history, readers>>

\* A call of load_submit(map_dir), lines 113-114.
LoadSubmit ==
    /\ result' = [op |-> "load_submit",
                  file |-> fs[_submit_path],
                  out |-> load_submit(fs[_submit_path])]
    /\ UNCHANGED <<fs, local, left, history, gen>>

\* A call of load_itemdata(map_dir), lines 134-135.
LoadItemdata ==
    /\ result' = [op |-> "load_itemdata",
                  file |-> fs[_itemdata_path],
                  out |-> load_itemdata(fs[_itemdata_path])]
    /\ UNCHANGED <<fs, local, left, history, gen>>

DocNext ==
    \/ DocSubmit
    \/ DocItemdata
    \/ Open(Caller)
    \/ Close(Caller)
    \/ TruncateDocument
    \/ LoadSubmit
    \/ LoadItemdata

DocSpec == DocInit /\ [][DocNext]_vars

(***************************************************************************)
(* InputsSpec: save_inputs is called on a fresh map directory, and again   *)
(* on what the earlier call left, each call running to its end or failing  *)
(* at one of its components.                                               *)
(***************************************************************************)
InputsInit == Fresh /\ left = MaxSaves

InputsNext ==
    \/ \E pairs \in SeqsUpTo(Values, MaxK) : save_inputs(Caller, pairs)
    \/ Open(Caller)
    \/ Close(Caller)
    \/ Fail(Caller)

InputsSpec == InputsInit /\ [][InputsNext]_vars

(***************************************************************************)
(* The exceptions of the store, by the kinds of error the specification    *)
(* names: a missing file makes open raise FileNotFoundError; text that     *)
(* does not parse makes int raise ValueError.                              *)
(***************************************************************************)
NotFoundError == "FileNotFoundError"

CorruptStateError == "ValueError"

\* json.JSONDecodeError is a subclass of ValueError.
CorruptStateErrors == {CorruptStateError, "JSONDecodeError"}

(***************************************************************************)
(* What the readers of the map directory get in the current state.         *)
(***************************************************************************)
ClusterIdsIn(files) == load_cluster_ids(files[_cluster_ids_path])

ClusterIds == ClusterIdsIn(fs)

NumComponentsIn(files) == load_num_components(files[_num_components_path])

NumComponents == NumComponentsIn(fs)

IsPrefix(a, b) == Len(a) <= Len(b) /\ SubSeq(b, 1, Len(a)) = a

\* l is a and b merged, each in its own order.
RECURSIVE IsInterleaving(_, _, _)
IsInterleaving(l, a, b) ==
    IF l = <<>> THEN a = <<>> /\ b = <<>>
    ELSE \/ a # <<>> /\ Head(a) = Head(l) /\ IsInterleaving(Tail(l), Tail(a), b)
         \/ b # <<>> /\ Head(b) = Head(l) /\ IsInterleaving(Tail(l), a, Tail(b))

\* The text of a log that holds exactly the lines of ids.
RECURSIVE LinesOf(_)
LinesOf(ids) ==
    IF ids = <<>> THEN <<>> ELSE ClusterIdLine(Head(ids)) \o LinesOf(Tail(ids))

(***************************************************************************)
(* C1.  When one process alone has appended cluster ids id_1 .. id_n to a  *)
(* log that did not exist, load_cluster_ids returns <<id_1, ..., id_n>>,   *)
(* in the order of the calls.                                              *)
(***************************************************************************)
C1_AppendThenLoad ==
    \A p \in Procs :
        (appended[p] # <<>> /\ \A q \in Procs \ {p} : appended[q] = <<>>)
            => ClusterIds = Returned(appended[p])

\* The example of the specification: 5, 17, 9 appended by one process.
C1_Witness ==
    /\ appended[1] = <<5, 17, 9>>
    /\ appended[2] = <<>>
    /\ ClusterIds = Returned(<<5, 17, 9>>)

(***************************************************************************)
(* C2.  Under every interleaving of two appending processes the log is     *)
(* whole lines only: it reads as an interleaving of the ids each process   *)
(* appended, none lost, and its text is exactly those lines.               *)
(***************************************************************************)
C2_ConcurrentAppendsWholeLines ==
    fs[_cluster_ids_path].exists =>
        /\ ClusterIds.err = ""
        /\ IsInterleaving(ClusterIds.val, appended[1], appended[2])
        /\ fs[_cluster_ids_path].data = LinesOf(ClusterIds.val)

\* Both processes are between open and close at once, after the other one's
\* line and one's own earlier line reached the log.
C2_Witness ==
    /\ local[1].pc = "opened"
    /\ local[2].pc = "opened"
    /\ appended[2] # <<>>
    /\ Len(ClusterIds.val) >= 1

(***************************************************************************)
(* C3.  The log only grows: no step of any store operation takes an entry  *)
(* away or changes one (the list read before the step is a prefix of the   *)
(* list read after it), and once an append_cluster_id has returned the log *)
(* has at least one entry.                                                 *)
(***************************************************************************)
C3_LogOnlyGrows ==
    [][/\ ClusterIds.err = ""
            => /\ ClusterIdsIn(fs').err = ""
               /\ IsPrefix(ClusterIds.val, ClusterIdsIn(fs').val)
       /\ (\E p \in Procs : appended'[p] # <<>>)
            => /\ ClusterIdsIn(fs').err = ""
               /\ Len(ClusterIdsIn(fs').val) >= 1]_vars

\* An append returned, and a save operation ran to its end after it.
C3_Witness ==
    /\ Len(ClusterIds.val) >= 1
    /\ left = 0
    /\ local[Caller].op = "idle"
    /\ \E path \in Paths : committed[path].exists

(***************************************************************************)
(* C9.  On a map directory where append_cluster_id was never called,       *)
(* load_cluster_ids raises the not-found error (FileNotFoundError), in     *)
(* every such state: of the two outcomes the claim allows, the store takes *)
(* this one, and never another error.                                      *)
(***************************************************************************)
C9_NeverSubmittedNotFound ==
    "append_cluster_id" \notin called
        => ClusterIds = Raised(NotFoundError)

\* Other artifacts were saved, the log was never appended to.
C9_Witness ==
    /\ "append_cluster_id" \notin called
    /\ committed[_submit_path].exists
    /\ left = 0

(***************************************************************************)
(* C4.  As the claim states it: whenever a reader looks at the path of an  *)
(* object file, during a save_object as well, the file is missing or holds *)
(* one complete gzip member with one pickled object, which load_object     *)
(* returns.  The store breaks this between gzip.open, which truncates the  *)
(* file, and the close that writes the member.                             *)
(***************************************************************************)
ObjectPaths == {FuncPath, ObjectPath} \cup InputPaths

C4_ReaderSeesNoFileOrContainer ==
    \A path \in ObjectPaths :
        fs[path].exists =>
            \E obj \in Values :
                /\ fs[path].data = GzipMember(Pickle(obj))
                /\ load_object(fs[path]) = Returned(<<obj>>)

(***************************************************************************)
(* C5.  As the claim states it: when no save of an artifact is running,    *)
(* its load returns what the last save of it that returned had written,    *)
(* also when a later save of it failed partway.  The store breaks this: a  *)
(* failing save has truncated the file before it fails.                    *)
(***************************************************************************)
SavedPaths == Paths \ {_cluster_ids_path}

\* The load operation of the artifact at path.
Load(path, file) ==
    IF path = _num_components_path THEN load_num_components(file)
    ELSE IF path = _submit_path THEN load_submit(file)
    ELSE IF path = _itemdata_path THEN load_itemdata(file)
    ELSE load_object(file)

Writing(path) ==
    \E p \in Procs : local[p].op # "idle" /\ local[p].path = path

C5_FailedSaveKeepsCommitted ==
    \A path \in SavedPaths :
        (committed[path].exists /\ ~Writing(path))
            => Load(path, fs[path]) = Load(path, committed[path])

(***************************************************************************)
(* C8.  As the claim states it: once a save_num_components(dir, n) has     *)
(* returned, load_num_components returns that first n whenever no later    *)
(* save_num_components is running or has failed, a later one that returned *)
(* included.                                                               *)
(***************************************************************************)
C8_CountNeverMutated ==
    (numFirst # -1 /\ numLast # -1) => NumComponents = Returned(<<numFirst>>)

(***************************************************************************)
(* C8, amended.  Once save_num_components(dir, n) has returned,            *)
(* load_num_components returns n after every store operation other than a  *)
(* further save_num_components; a further save_num_components(dir, m) that *)
(* returns replaces n by m.                                                *)
(***************************************************************************)
C8_CountIsLastSaved ==
    numLast # -1 => NumComponents = Returned(<<numLast>>)

\* The count was saved twice, with different numbers.
C8_Witness ==
    /\ numFirst # -1
    /\ numLast # -1
    /\ numLast # numFirst
    /\ local[Caller].op = "idle"

(***************************************************************************)
(* C6.  After save_object wrote v1 .. vn to one path, the generator of     *)
(* load_objects yields v1 .. vn in order and then ends without an          *)
(* exception.                                                              *)
(***************************************************************************)
C6_StreamRoundTrip ==
    (gen.state = "finished" /\ saved # <<>>)
        => gen.yielded = saved /\ gen.err = ""

(***************************************************************************)
(* C7.  Once the creation workflow has saved k pairs with save_inputs and  *)
(* save_num_components(dir, k) has returned, load_num_components returns k *)
(* and exactly k input component files exist, for every k >= 0.            *)
(***************************************************************************)
InputFiles == {path \in InputPaths : fs[path].exists}

C7_ComponentCount ==
    ("save_inputs" \in called /\ numLast # -1)
        => /\ NumComponents = Returned(<<Len(lastInputs)>>)
           /\ Cardinality(InputFiles) = Len(lastInputs)

\* The workflow is through, with as many pairs as the bound allows.
C7_Witness ==
    /\ called = CreationOps
    /\ local[Caller].op = "idle"
    /\ Len(lastInputs) = MaxK
    /\ numLast = MaxK
    /\ Cardinality(InputFiles) = MaxK

(***************************************************************************)
(* C10.  As the claim states it: load_num_components raises the corrupt    *)
(* state error when the file is missing, when it is empty and when it      *)
(* holds no integer.                                                       *)
(***************************************************************************)
DigitChars == {Digits[d] : d \in 1..10}

\* The text is an integer as int() reads one: an optional sign and digits,
\* whitespace around them.
IsIntegerText(s) ==
    LET t == Strip(s)
        body == IF t # <<>> /\ Head(t) \in {"-", "+"} THEN Tail(t) ELSE t
    IN  body # <<>> /\ \A i \in 1..Len(body) : body[i] \in DigitChars

C10_MissingEmptyInvalidAreCorrupt ==
    (/\ result.op = "load_num_components"
     /\ \/ ~result.file.exists
        \/ result.file.data = <<>>
        \/ ~IsIntegerText(result.file.data))
        => result.out = Raised(CorruptStateError)

(***************************************************************************)
(* C10, amended.  load_num_components returns the integer                  *)
(* save_num_components wrote; it raises FileNotFoundError when the file is *)
(* missing and ValueError when the file is empty or holds no integer; it   *)
(* returns no default and no other number than the one the text denotes.   *)
(***************************************************************************)
RECURSIVE DropZeros(_)
DropZeros(digits) ==
    IF Len(digits) > 1 /\ Head(digits) = "0" THEN DropZeros(Tail(digits))
    ELSE digits

\* The decimal form of the integer a text denotes: no whitespace, no plus
\* sign, no leading zeros, no minus sign before zero.
Canonical(s) ==
    LET t == Strip(s)
        signed == t # <<>> /\ Head(t) \in {"-", "+"}
        digits == DropZeros(IF signed THEN Tail(t) ELSE t)
    IN  IF signed /\ Head(t) = "-" /\ digits # <<"0">>
        THEN <<"-">> \o digits ELSE digits

C10_LoadNumComponents ==
    result.op = "load_num_components" =>
        /\ ~result.file.exists => result.out = Raised(NotFoundError)
        /\ (result.file.exists /\ ~IsIntegerText(result.file.data))
                => result.out = Raised("ValueError")
        /\ (result.file.exists /\ IsIntegerText(result.file.data))
                => /\ result.out.err = ""
                   /\ Len(result.out.val) = 1
                   /\ Str(result.out.val[1]) = Canonical(result.file.data)
        /\ (numLast # -1 /\ result.file = fs[_num_components_path])
                => result.out = Returned(<<numLast>>)

\* A count of several digits was saved and loaded back.
C10_Witness ==
    /\ result.op = "load_num_components"
    /\ numLast = 128
    /\ result.file = fs[_num_components_path]
    /\ result.out = Returned(<<128>>)

(***************************************************************************)
(* C11.  For every content of the cluster_ids file, load_cluster_ids skips *)
(* the empty lines and parses every other line as an integer: it returns   *)
(* those integers in file order, and raises the corrupt state error when   *)
(* one of the non-empty lines is no integer.  The store breaks this on an  *)
(* empty line, which it gives to int like every other line.                *)
(***************************************************************************)
NonEmptyLines(text) == SelectSeq(SplitLines(text), LAMBDA line : line # <<>>)

C11_LoadClusterIdsSkipsEmptyLines ==
    (result.op = "load_cluster_ids" /\ result.file.exists) =>
        LET lines == NonEmptyLines(result.file.data)
        IN  IF \E i \in 1..Len(lines) : ~IsIntegerText(lines[i])
            THEN result.out = Raised(CorruptStateError)
            ELSE /\ result.out.err = ""
                 /\ Len(result.out.val) = Len(lines)
                 /\ \A i \in 1..Len(lines) :
                        Str(result.out.val[i]) = Canonical(lines[i])

(***************************************************************************)
(* C12.  Once save_submit has returned, load_submit returns a mapping      *)
(* equal to the one saved, whatever the order of its keys; once            *)
(* save_itemdata has returned, load_itemdata returns the sequence of       *)
(* mappings saved, element by element, the empty mapping and the empty     *)
(* sequence included.                                                      *)
(***************************************************************************)
\* The key, value pairs of an object.
Mapping(obj) ==
    {<<obj.items[2 * i - 1], obj.items[2 * i]>> : i \in 1..(Len(obj.items) \div 2)}

C12_DocumentRoundTrip ==
    /\ docs["save_submit"] # JNull =>
            LET out == load_submit(fs[_submit_path])
            IN  /\ out.err = ""
                /\ out.val.t = "obj"
                /\ Mapping(out.val) = Mapping(docs["save_submit"])
    /\ docs["save_itemdata"] # JNull =>
            load_itemdata(fs[_itemdata_path]) = JReturned(docs["save_itemdata"])

\* A submit description with characters json escapes and an itemdata with an
\* empty mapping were saved.
C12_Witness ==
    /\ docs["save_submit"] = JObj(<<JStr(<<"a">>), JStr(<<"\"", "x", "\\">>)>>)
    /\ docs["save_itemdata"] =
           JArr(<<JObj(<<JStr(<<"a">>), JStr(<<"x">>)>>), JObj(<<>>)>>)
    /\ load_submit(fs[_submit_path]).err = ""

(***************************************************************************)
(* C13.  When the file of a saved document has lost its last byte,         *)
(* load_submit and load_itemdata raise the corrupt state error (json's     *)
(* JSONDecodeError, a ValueError) and return nothing.                      *)
(***************************************************************************)
LoadOf(op) == IF op = "save_submit" THEN "load_submit" ELSE "load_itemdata"

C13_TruncatedDocumentIsCorrupt ==
    \A op \in DocumentOps :
        (/\ result.op = LoadOf(op)
         /\ docs[op] # JNull
         /\ result.file.exists
         /\ result.file.data = Truncated(committed[DocumentPath(op)].data))
            => /\ result.out.err \in CorruptStateErrors
               /\ result.out.val = JNull

\* The smallest document, "[]", was saved, cut to "[" and loaded.
C13_Witness ==
    /\ result.op = "load_itemdata"
    /\ docs["save_itemdata"] = JArr(<<>>)
    /\ result.file.data = <<"[">>
    /\ result.out.err = "JSONDecodeError"

(***************************************************************************)
(* C14.  Whenever a save_object(v, path) returns, load_object(path) on the *)
(* file it leaves returns v, on a fresh path and on one that held another  *)
(* object.                                                                 *)
(***************************************************************************)
C14_ObjectRoundTrip ==
    [][saved' # saved
        => load_object(fs'[ObjectPath]) = Returned(<<saved'[Len(saved')]>>)]_vars

\* Two different objects were saved to the path, and the second is loaded.
C14_Witness ==
    /\ Len(saved) = 2
    /\ saved[1] # saved[2]
    /\ local[Caller].op = "idle"
    /\ load_object(fs[ObjectPath]) = Returned(<<saved[2]>>)

(***************************************************************************)
(* C15.  No step of a store operation, one that fails included, changes a  *)
(* file other than those of the artifact the operation writes:             *)
(* append_cluster_id only the log, save_func only the function, save_inputs*)
(* only input components, save_num_components only the count, save_submit  *)
(* only the submit description, save_itemdata only the itemdata.           *)
(***************************************************************************)
\* The files of the artifact an operation writes, by the layout of the map
\* directory.
Artifact(op) ==
    CASE op = "save_func" -> {<<FUNC>>}
      [] op = "save_inputs" ->
            {<<INPUTS_DIR>> \o Str(i) \o <<".", INPUT_EXT>> : i \in 0..MaxK}
      [] op = "save_num_components" -> {<<NUM_COMPONENTS>>}
      [] op = "append_cluster_id" -> {<<CLUSTER_IDS>>}
      [] op = "save_submit" -> {<<SUBMIT>>}
      [] op = "save_itemdata" -> {<<ITEMDATA>>}
      [] op = "save_object" -> {ObjectPath}
      [] OTHER -> {}

C15_OnlyOwnArtifactChanges ==
    [][\A path \in Paths :
           fs'[path] # fs[path]
               => \E p \in Procs : path \in Artifact(local[p].op)]_vars

\* An append returned after the submit description was saved, which is as it
\* was saved.
C15_Witness ==
    /\ appended[Caller] # <<>>
    /\ docs["save_submit"] # JNull
    /\ local[Caller].op = "idle"
    /\ fs[_submit_path] = committed[_submit_path]

(***************************************************************************)
(* C16.  After save_inputs of the pairs p_0 .. p_(k-1) has returned,       *)
(* load_object on inputs/<i>.in returns p_i, for every i in 0 .. k-1 and   *)
(* independently of the other components.                                  *)
(***************************************************************************)
C16_InputComponentFiles ==
    ("save_inputs" \in called /\ local[Caller].op # "save_inputs")
        => \A i \in 0..(Len(lastInputs) - 1) :
               load_object(fs[<<INPUTS_DIR>> \o Str(i) \o <<".", INPUT_EXT>>])
                   = Returned(<<lastInputs[i + 1]>>)

\* Two different pairs were saved; the second is in inputs/1.in.
C16_Witness ==
    /\ "save_inputs" \in called
    /\ local[Caller].op # "save_inputs"
    /\ lastInputs = <<"v1", "v2">>
    /\ load_object(fs[<<"inputs", "1", ".", "in">>]) = Returned(<<"v2">>)

(***************************************************************************)
(* C17.  In every state of save_inputs, also after it failed at a          *)
(* component, the input component files present are those of the indexes   *)
(* 0 .. m-1 for some m; during and after the first call on an empty inputs *)
(* directory m is at most the number of pairs given.                       *)
(***************************************************************************)
C17_ComponentFilesAreAPrefix ==
    \E m \in 0..(MaxK + 1) :
        /\ InputFiles = {InputPath(i) : i \in 0..(m - 1)}
        /\ left = MaxSaves - 1 => m <= Len(lastInputs)

\* The first call failed at its second component: files 0 and 1 are there.
C17_Witness ==
    /\ left = MaxSaves - 1
    /\ Len(lastInputs) = 2
    /\ local[Caller].op = "idle"
    /\ fs[InputPath(1)].exists
    /\ ~committed[InputPath(1)].exists

(***************************************************************************)
(* C18.  After save_object(v1, path) and then save_object(v2, path) have   *)
(* returned, load_object(path) returns v2 and the file holds the one frame *)
(* of v2, not the frames of v1 and v2 one after the other.                 *)
(***************************************************************************)
C18_LastWriterWins ==
    (saved # <<>> /\ local[Caller].op = "idle") =>
        LET last == saved[Len(saved)]
        IN  /\ load_object(fs[ObjectPath]) = Returned(<<last>>)
            /\ Frames(fs[ObjectPath]).objs = <<last>>
            /\ fs[ObjectPath].data = GzipMember(Pickle(last))

\* v1 and then another object were saved to the path.
C18_Witness ==
    /\ Len(saved) >= 2
    /\ saved[Len(saved) - 1] # saved[Len(saved)]
    /\ local[Caller].op = "idle"
    /\ Frames(fs[ObjectPath]).objs = <<saved[Len(saved)]>>

(***************************************************************************)
(* C19.  No step of save_inputs called with k pairs changes or removes a   *)
(* component file of an index >= k; so after a call with fewer pairs than  *)
(* an earlier one there are more component files than pairs last saved.    *)
(***************************************************************************)
C19_SaveInputsDeletesNothing ==
    [][\A i \in 0..MaxK :
           (local[Caller].op = "save_inputs" /\ i >= Len(lastInputs))
               => fs'[InputPath(i)] = fs[InputPath(i)]]_vars

\* A call with two pairs and then a call with fewer returned: both files of
\* the first call are there, the second as the first call wrote it.
C19_Witness ==
    /\ left = 0
    /\ local[Caller].op = "idle"
    /\ Len(lastInputs) < 2
    /\ Cardinality(InputFiles) = 2
    /\ Cardinality(InputFiles) > Len(lastInputs)
    /\ load_object(fs[InputPath(1)]).err = ""

====
